---- MODULE Spec2Model ----
(***************************************************************************)
(* Model of the 3D/AR monument viewer, src/src/pages/ARViewer.tsx (the     *)
(* component that starts at line 623).                                     *)
(*                                                                         *)
(* The viewer is a React function component.  Its state is the useState    *)
(* cells and refs of the component plus, for every call of initThreeJS,    *)
(* the closure that call creates (scene, model-root, render loop).  Every  *)
(* handler is one action and includes the re-render and the effects React  *)
(* runs after the handler's state updates.  An async function is split at  *)
(* its await points; each continuation is an action of its own.            *)
(*                                                                         *)
(* The specifications share the state:                                     *)
(*   Spec       the life cycle: mount, monument lookup and switch, camera  *)
(*              acquisition and release, scene initialisation, render      *)
(*              loops, unmount;                                            *)
(*   SpecLoad   the loading pipeline of the scenes, for every loader       *)
(*              strategy and every outcome of the loaders;                 *)
(*   SpecResolve the choice of the asset descriptor;                       *)
(*   SpecOrbit  the mouse and touch listeners of one scene;                *)
(*   SpecTick   the mouse listeners and the frame body of one scene;       *)
(*   SpecTouch  touch sessions with several contacts;                      *)
(*   SpecSwipe  touch sessions at the swipe thresholds, on a canvas that   *)
(*              has been initialised several times, and the timers of the  *)
(*              swipe feedback;                                            *)
(*   SpecCamera the camera with the settlements of video.play();           *)
(*   SpecCameraLive the same when every getUserMedia request settles;      *)
(*   SpecScale  the size slider and the scale the frame body applies;      *)
(*   SpecBase   the slider and the scale of the model-root, per monument;  *)
(*   SpecLookup the monument lookup when every query settles;              *)
(*   SpecReset  the Reset View button and the loops it leaves running;     *)
(*   SpecKey    normalizeKey on titles.                                    *)
(***************************************************************************)
EXTENDS Integers, Sequences, FiniteSets, TLC

(***************************************************************************)
(* Bounds of the model.                                                    *)
(***************************************************************************)
MaxScenes == 3      \* calls of initThreeJS in one behaviour
MaxStreams == 2     \* getUserMedia requests granted or still pending
MaxSwitches == 1    \* changes of the ?monument= query parameter
MaxTicks == 1       \* frames the observed render loop draws
MaxYaw == 600       \* largest |rotationY|, in 1/1000 rad
MaxTouches == 2     \* simultaneous touch contacts on the canvas

(***************************************************************************)
(* Monument identifiers (the ?monument= query parameter, line 626).        *)
(* NoId is the absent parameter.  UuidA matches uuidRegex (line 685), the  *)
(* others do not.  The asset table of the repository (lines 612-621) has   *)
(* .glb entries only; the keys "k-gltf", "k-obj" and "k-stl" stand for     *)
(* table entries with the other extensions initThreeJS dispatches on.      *)
(* "HAMPI" is an identifier that matches a key only in lower case.         *)
(* MonumentIds are the identifiers of the viewer's life cycle (Spec),      *)
(* LoadIds those of the loading pipeline (SpecLoad).                       *)
(***************************************************************************)
NoId == "null"
UuidA == "uuid-a"
MonumentIds == {NoId, UuidA}
LoadIds == {NoId, "HAMPI", "k-gltf", "k-obj", "k-stl", "zzz"}

IsUuid(id) == id = UuidA

NoMonument == "null"

\* normalizeKey(title) of the record the backend holds for an identifier
TitleKey(id) == IF id = UuidA THEN "taj-mahal" ELSE "untitled"

\* monumentId.toLowerCase()
lowerCaseId(id) == IF id = "HAMPI" THEN "hampi" ELSE id

\* the keys of the asset table
TableKeys == {"hampi", "taj-mahal", "k-gltf", "k-obj", "k-stl"}

\* modelConfigs[key]: the descriptor filed under the key (named by the key),
\* "none" for undefined
modelConfigs(key) == IF key \in TableKeys THEN key ELSE "none"

\* modelConfig.url.split('.').pop().toLowerCase() of a descriptor, "none"
\* when there is no descriptor
fileExtension(config) ==
  CASE config \in {"hampi", "taj-mahal"} -> "glb"
    [] config = "k-gltf" -> "gltf"
    [] config = "k-obj" -> "obj"
    [] config = "k-stl" -> "stl"
    [] OTHER -> "none"

\* the scale field of a descriptor in 1/10 (2.2 for hampi, 1.5 for
\* taj-mahal; the stand-in entries have 1.0), and `?? 1` of line 843
baseScale(config) ==
  CASE config = "hampi" -> 22
    [] config = "taj-mahal" -> 15
    [] OTHER -> 10

\* mutant of getModelConfig: the identifier is looked up before the title
getModelConfigIdFirst(m, id) ==
  IF modelConfigs(IF id = NoId THEN "hampi" ELSE lowerCaseId(id)) # "none"
  THEN modelConfigs(IF id = NoId THEN "hampi" ELSE lowerCaseId(id))
  ELSE IF m # NoMonument THEN modelConfigs(TitleKey(m)) ELSE "none"

\* getModelConfig for a render with state monument m and parameter id:
\* the descriptor, "none" for null
getModelConfig(m, id) ==
  IF m # NoMonument /\ modelConfigs(TitleKey(m)) # "none"
  THEN modelConfigs(TitleKey(m))
  ELSE modelConfigs(IF id = NoId THEN "hampi" ELSE lowerCaseId(id))

\* useState(0.6) and useRef(0.6), in 1/100
DefaultScale == 60

DeniedMsg == "Camera access denied"
HardwareMsg == "Could not access camera"
PlaybackMsg == "Camera started, but video could not play"

VARIABLES
  mounted,        \* the component is mounted (canvasRef.current is set while it is and loading is false)
  monumentId,     \* searchParams.get("monument")
  monument,       \* useState<Monument | null>: identifier of the fetched record, or NoMonument
  loading,        \* useState(true)
  mode,           \* useState<'3d' | 'camera'>
  cameraStream,   \* useState<MediaStream | null>: index into tracks, 0 for null
  cameraError,    \* useState<string>
  cleanupStream,  \* cameraStream as captured by the stopCamera the [monumentId] effect's cleanup closes over
  animationRef,   \* animationRef.current: 0 for undefined, else the scene whose request it stores
  scenes,         \* one record per call of initThreeJS
  tracks,         \* state of the tracks of every stream getUserMedia has granted
  pendingCam,     \* getUserMedia promises not yet settled
  pendingFetch,   \* identifiers of the supabase queries not yet settled
  switches,       \* number of parameter changes so far
  \* the closure of the first initThreeJS call, whose gestures are observed
  isDragging,             \* let isDragging
  previousMousePosition,  \* let previousMousePosition = {x, y}
  rotationY,              \* yaw, in 1/1000 rad
  rotationX,              \* pitch, in 1/1000 rad
  touchStartPos,          \* let touchStartPos = {x, y}
  touchStartTime,         \* let touchStartTime
  time,                   \* let time, counted in frames (time += 0.01 per frame)
  touches,                \* number of touch contacts on the canvas (e.touches.length after the event)
  now,                    \* Date.now()
  swipeFeedback,  \* the 'swipe-feedback' elements whose removal timer is pending, oldest first; attached: in document.body
  pointer,        \* where the mouse pointer is, Offscreen when it is not over the canvas
  frame,          \* what the last renderer.render of the observed closure drew
  followers,      \* number of later closures on the same canvas whose 'touchstart' listener has run: their isDragging, touchStartPos and touchStartTime are those of the observed closure
  pendingPlay,    \* video.play() promises not yet settled
  modelScale,     \* useState(0.6), in 1/100
  modelScaleRef,  \* modelScaleRef.current, in 1/100
  scaleApplied,   \* the multiplier of baseScale in the last setScalar of the observed closure, 0 before its first frame
  rootScale,      \* the argument of that setScalar, in 1/1000, 0 before the first frame
  title,          \* a monument title, as a sequence of characters
  titleKey,       \* the key computed from title so far
  keyPasses       \* number of times normalizeKey has been applied

orbit == <<isDragging, previousMousePosition, rotationY, rotationX,
           touchStartPos, touchStartTime, time, touches, now, swipeFeedback,
           pointer, frame, followers>>

\* the cells that only the size slider, the frame body and the key
\* normalisation write
extra == <<modelScale, modelScaleRef, scaleApplied, rootScale, title, titleKey,
           keyPasses>>

vars == <<mounted, monumentId, monument, loading, mode, cameraStream,
          cameraError, cleanupStream, animationRef, scenes, tracks,
          pendingCam, pendingFetch, switches, orbit, pendingPlay, extra>>

(***************************************************************************)
(* Scenes.  pc is the position of the async function initThreeJS:          *)
(*   "import3"  awaiting import('three')                       (line 730)  *)
(*   "loader"   awaiting the first loader module  (lines 851, 887, 981)    *)
(*   "loader2"  awaiting MTLLoader                             (line 888)  *)
(*   "ready"    the function has returned, animate() was called            *)
(*   "failed"   the function threw before it created the scene             *)
(* load is the callback the loaders still owe:                             *)
(*   "none" nothing requested, "mtl" the material file, "obj-mtl" geometry *)
(*   with materials, "obj-plain" geometry with the default material,       *)
(*   "gltf", "stl", and "done" once a callback or the fallback has run.    *)
(* materials is what the OBJ geometry is or was requested with: "file" for *)
(* the materials of the .mtl file, "default" for the default material.     *)
(* ring is 1 once the local `ring` holds a mesh, orbs is orbs.length; cam   *)
(* is the isCameraMode the scene and its renderer were set up with.        *)
(***************************************************************************)
NewScene(isCameraMode, config) ==
  [pc |-> "import3", cam |-> isCameraMode, config |-> config,
   ext |-> fileExtension(config), load |-> "none",
   materials |-> "none", asset |-> 0, fallback |-> 0, settles |-> 0,
   ring |-> 0, orbs |-> 0, err |-> FALSE, running |-> FALSE]

SceneIds == 1..Len(scenes)

\* cancelAnimationFrame(animationRef.current) behind `if (animationRef.current)`
CancelFrame(scn, ref) ==
  IF ref # 0 THEN [scn EXCEPT ![ref].running = FALSE] ELSE scn

\* initThreeJS up to its first await: the canvas exists, the call is pending
initThreeJS(scn, isCameraMode, config) ==
  Append(scn, NewScene(isCameraMode, config))


\* mutant of SceneEffect: the effect only cancels, the scene is kept
SceneEffectCancelOnly(changed, ld, md, m, id, scn, ref) ==
  IF changed THEN CancelFrame(scn, ref) ELSE scn

\* the cleanup and body of useEffect(..., [loading, mode, monument]):
\* when a dependency changed, the pending frame request is cancelled and,
\* unless the page is still loading, the scene is initialised again
SceneEffect(changed, ld, md, m, id, scn, ref) ==
  IF changed
  THEN IF ~ld
       THEN initThreeJS(CancelFrame(scn, ref), md = "camera", getModelConfig(m, id))
       ELSE CancelFrame(scn, ref)
  ELSE scn

\* mutant of StopTracks: the handle is dropped without stopping the tracks
StopTracksSkipped(trk, s) == trk

\* the track.stop() loop of stopCamera for a closure that holds stream s
StopTracks(trk, s) ==
  IF s # 0 THEN [trk EXCEPT ![s] = "stopped"] ELSE trk

\* stopCamera for a closure that holds stream s, applied to the state cell
\* whose current value is cur: setCameraStream(null) only behind `if (cameraStream)`
StopHandle(cur, s) == IF s # 0 THEN 0 ELSE cur

RemoveAt(q, i) == [j \in 1..(Len(q) - 1) |-> IF j < i THEN q[j] ELSE q[j + 1]]

(***************************************************************************)
(* The state after the component has mounted and its mount effects ran:    *)
(* the [monumentId] effect either started the query (a UUID) or cleared    *)
(* loading, and in the second case the re-render started the first         *)
(* initThreeJS.                                                            *)
(***************************************************************************)
\* the pointer is not over the canvas
Offscreen == [x |-> -1, y |-> -1]

PointerAway == pointer = Offscreen

\* lines 1033-1036, 1054-1055, 1120: the locals of a fresh initThreeJS
\* closure; Date.now() is far above SWIPE_TIME_LIMIT at page load
OrbitInit ==
  /\ isDragging = FALSE
  /\ previousMousePosition = [x |-> 0, y |-> 0]
  /\ rotationY = 0
  /\ rotationX = 0
  /\ touchStartPos = [x |-> 0, y |-> 0]
  /\ touchStartTime = 0
  /\ time = 0
  /\ touches = 0
  /\ now = 1000
  /\ swipeFeedback = << >>
  /\ frame = << >>
  /\ followers = 0

InitFor(ids) ==
  \E id \in ids :
    /\ mounted = TRUE
    /\ monumentId = id
    /\ monument = NoMonument
    /\ loading = IsUuid(id)
    /\ mode = "3d"
    /\ cameraStream = 0
    /\ cameraError = ""
    /\ cleanupStream = 0
    /\ animationRef = 0
    /\ scenes = IF IsUuid(id) THEN << >>
                ELSE << NewScene(FALSE, getModelConfig(NoMonument, id)) >>
    /\ tracks = << >>
    /\ pendingCam = 0
    /\ pendingFetch = IF IsUuid(id) THEN << id >> ELSE << >>
    /\ switches = 0
    /\ pendingPlay = 0
    /\ modelScale = DefaultScale
    /\ modelScaleRef = DefaultScale
    /\ scaleApplied = 0
    /\ rootScale = 0
    /\ OrbitInit

\* no title is being normalised
NoTitle == title = << >> /\ titleKey = << >> /\ keyPasses = 0

Init == InitFor(MonumentIds) /\ NoTitle /\ PointerAway

InitLoad == InitFor(LoadIds) /\ NoTitle /\ PointerAway

\* mutant of loadingAfterFetch: setLoading(false) on the success path only
loadingAfterFetchOnSuccess(ld, outcome) ==
  IF outcome = "error" THEN ld ELSE FALSE

\* the finally block of fetchMonument: setLoading(false) on every path
loadingAfterFetch(ld, outcome) == FALSE

(***************************************************************************)
(* fetchMonument after its await: the query for pendingFetch[i] settles    *)
(* with a record ("data"), with nothing ("none") or with an error.         *)
(* State updates of an unmounted component are dropped.                    *)
(***************************************************************************)
FetchSettle(i, outcome) ==
  /\ i \in 1..Len(pendingFetch)
  /\ LET id == pendingFetch[i]
         m == IF outcome = "data" THEN id ELSE monument
         ld == loadingAfterFetch(loading, outcome)
         changed == ld # loading \/ outcome = "data"
     IN /\ pendingFetch' = RemoveAt(pendingFetch, i)
        /\ IF mounted
           THEN /\ changed => Len(scenes) < MaxScenes
                /\ monument' = m
                /\ loading' = ld
                /\ scenes' = SceneEffect(changed, ld, mode, m, monumentId,
                                         scenes, animationRef)
           ELSE UNCHANGED <<monument, loading, scenes>>
  /\ UNCHANGED <<mounted, monumentId, mode, cameraStream, cameraError,
                 cleanupStream, animationRef, tracks, pendingCam, switches, orbit, pendingPlay, extra>>

(***************************************************************************)
(* The query parameter changes to id while the viewer stays mounted.  The  *)
(* cleanup of the [monumentId] effect runs with the closure of the render  *)
(* that installed it, then the effect body runs for the new identifier.    *)
(***************************************************************************)
SwitchMonument(id) ==
  /\ mounted
  /\ id # monumentId
  /\ switches < MaxSwitches
  /\ LET ld == IF IsUuid(id) THEN loading ELSE FALSE
         changed == mode # "3d" \/ ld # loading
     IN /\ changed => Len(scenes) < MaxScenes
        /\ loading' = ld
        /\ scenes' = SceneEffect(changed, ld, "3d", monument, id,
                                 CancelFrame(scenes, animationRef), animationRef)
  /\ monumentId' = id
  /\ switches' = switches + 1
  /\ tracks' = StopTracks(tracks, cleanupStream)
  /\ cameraStream' = StopHandle(cameraStream, cleanupStream)
  /\ mode' = "3d"
  /\ cleanupStream' = cameraStream
  /\ pendingFetch' = IF IsUuid(id) THEN Append(pendingFetch, id) ELSE pendingFetch
  /\ UNCHANGED <<mounted, monument, cameraError, animationRef, pendingCam, orbit, pendingPlay, extra>>

(***************************************************************************)
(* The component unmounts: both cleanups run, state updates are dropped.   *)
(***************************************************************************)
Unmount ==
  /\ mounted
  /\ mounted' = FALSE
  /\ scenes' = CancelFrame(scenes, animationRef)
  /\ tracks' = StopTracks(tracks, cleanupStream)
  /\ UNCHANGED <<monumentId, monument, loading, mode, cameraStream, cameraError,
                 cleanupStream, animationRef, pendingCam, pendingFetch, switches, orbit, pendingPlay, extra>>

(***************************************************************************)
(* startCamera up to its await ('Open Camera AR', shown in 3d mode).       *)
(***************************************************************************)
StartCameraClick ==
  /\ mounted /\ ~loading /\ mode = "3d"
  /\ Len(tracks) + pendingCam < MaxStreams
  /\ cameraError' = ""
  /\ pendingCam' = pendingCam + 1
  /\ UNCHANGED <<mounted, monumentId, monument, loading, mode, cameraStream,
                 cleanupStream, animationRef, scenes, tracks, pendingFetch,
                 switches, orbit, pendingPlay, extra>>

\* getUserMedia resolves: setCameraStream(stream); setMode('camera').  The
\* re-render mounts the <video> element and the [mode, cameraStream] effect
\* attaches the stream to it and calls video.play().
CameraGranted ==
  /\ pendingCam > 0
  /\ pendingCam' = pendingCam - 1
  /\ tracks' = Append(tracks, "live")
  /\ IF mounted
     THEN /\ mode # "camera" => Len(scenes) < MaxScenes
          /\ cameraStream' = Len(tracks) + 1
          /\ mode' = "camera"
          /\ scenes' = SceneEffect(mode # "camera", loading, "camera", monument,
                                   monumentId, scenes, animationRef)
          /\ pendingPlay' = pendingPlay + 1
     ELSE UNCHANGED <<cameraStream, mode, scenes, pendingPlay>>
  /\ UNCHANGED <<mounted, monumentId, monument, loading, cameraError,
                 cleanupStream, animationRef, pendingFetch, switches, orbit, extra>>

\* video.play() resolves
PlayResolved ==
  /\ pendingPlay > 0
  /\ pendingPlay' = pendingPlay - 1
  /\ UNCHANGED <<mounted, monumentId, monument, loading, mode, cameraStream,
                 cameraError, cleanupStream, animationRef, scenes, tracks,
                 pendingCam, pendingFetch, switches, orbit, extra>>

\* mutant of PlayRejected: the catch also goes back to 3d and drops the handle
PlayRejectedRollsBack ==
  /\ pendingPlay > 0
  /\ pendingPlay' = pendingPlay - 1
  /\ cameraError' = IF mounted THEN PlaybackMsg ELSE cameraError
  /\ mode' = "3d"
  /\ cameraStream' = 0
  /\ UNCHANGED <<mounted, monumentId, monument, loading, cleanupStream,
                 animationRef, scenes, tracks, pendingCam, pendingFetch,
                 switches, orbit, extra>>

\* video.play() rejects: the catch of line 672
PlayRejected ==
  /\ pendingPlay > 0
  /\ pendingPlay' = pendingPlay - 1
  /\ cameraError' = IF mounted THEN PlaybackMsg ELSE cameraError
  /\ UNCHANGED <<mounted, monumentId, monument, loading, mode, cameraStream,
                 cleanupStream, animationRef, scenes, tracks, pendingCam,
                 pendingFetch, switches, orbit, extra>>

\* getUserMedia rejects with an error of the given name
CameraRejected(name) ==
  /\ pendingCam > 0
  /\ pendingCam' = pendingCam - 1
  /\ cameraError' = IF mounted
                    THEN (IF name = "NotAllowedError" THEN DeniedMsg ELSE HardwareMsg)
                    ELSE cameraError
  /\ UNCHANGED <<mounted, monumentId, monument, loading, mode, cameraStream,
                 cleanupStream, animationRef, scenes, tracks, pendingFetch,
                 switches, orbit, pendingPlay, extra>>

(***************************************************************************)
(* stopCamera as the onClick of 'Back to 3D View' (shown in camera mode):  *)
(* the closure of the current render.                                      *)
(***************************************************************************)
stopCamera ==
  /\ mounted /\ ~loading /\ mode = "camera"
  /\ Len(scenes) < MaxScenes
  /\ tracks' = StopTracks(tracks, cameraStream)
  /\ cameraStream' = StopHandle(cameraStream, cameraStream)
  /\ mode' = "3d"
  /\ scenes' = SceneEffect(TRUE, loading, "3d", monument, monumentId,
                           scenes, animationRef)
  /\ UNCHANGED <<mounted, monumentId, monument, loading, cameraError,
                 cleanupStream, animationRef, pendingCam, pendingFetch, switches, orbit, pendingPlay, extra>>

\* the onClick of 'Reset View' (shown in 3d mode): initThreeJS() without argument
ResetView ==
  /\ mounted /\ ~loading /\ mode = "3d"
  /\ Len(scenes) < MaxScenes
  /\ scenes' = initThreeJS(CancelFrame(scenes, animationRef), FALSE,
                           getModelConfig(monument, monumentId))
  /\ UNCHANGED <<mounted, monumentId, monument, loading, mode, cameraStream,
                 cameraError, cleanupStream, animationRef, tracks, pendingCam,
                 pendingFetch, switches, orbit, pendingPlay, extra>>

(***************************************************************************)
(* initThreeJS after its awaits, and the loader callbacks.                 *)
(***************************************************************************)
\* mutant of createFallbackMonument: the placeholder is built but not added
createFallbackDetached(s) ==
  [s EXCEPT !.settles = @ + 1, !.load = "done"]

\* mutant of addRingAndOrbs: the ring, and the orbs without orbs.push(orb)
addRingOnly(s) == [s EXCEPT !.ring = 1]

\* lines 811-838 of createFallbackMonument: ring = new THREE.Mesh(...), and
\* four times orbs.push(orb)
addRingAndOrbs(s) == [s EXCEPT !.ring = 1, !.orbs = @ + 4]

\* createFallbackMonument: adds the placeholder to the model-root (no clear)
createFallbackMonument(s) ==
  addRingAndOrbs([s EXCEPT !.fallback = @ + 1, !.settles = @ + 1,
                           !.load = "done"])

\* a loader's success callback: modelRoot.clear(); modelRoot.add(node)
onLoad(s) ==
  [s EXCEPT !.asset = 1, !.fallback = 0, !.settles = @ + 1, !.load = "done"]

\* mutant of onError: the error is logged, no fallback is built
onErrorLogsOnly(s) ==
  [s EXCEPT !.err = TRUE, !.settles = @ + 1, !.load = "done"]

\* a loader's error callback for the geometry, and the catch of line 1008
onError(s) == [createFallbackMonument(s) EXCEPT !.err = TRUE]

\* mutant of onMtlError: the fallback is built and geometry is requested again
onMtlErrorFallsBack(s) ==
  [s EXCEPT !.fallback = @ + 1, !.settles = @ + 1, !.load = "obj-plain"]

\* the MTL error callback: geometry is requested again without materials
onMtlError(s) == [s EXCEPT !.load = "obj-plain", !.materials = "default"]

\* mutant of onMtlLoad: the materials are dropped, geometry is requested plain
onMtlLoadPlain(s) == [s EXCEPT !.load = "obj-plain", !.materials = "default"]

\* the MTL success callback: objLoader.setMaterials(materials); objLoader.load
onMtlLoad(s) == [s EXCEPT !.load = "obj-mtl", !.materials = "file"]

\* lines 1016-1163: stars, listeners, and the first synchronous animate()
StartLoop(s) == [s EXCEPT !.pc = "ready", !.running = TRUE]

\* the loader.load call of the strategy chosen by the file extension
Strategy(ext) ==
  IF ext = "stl" THEN "stl" ELSE IF ext = "obj" THEN "mtl" ELSE "gltf"

\* loader.load(...) / mtlLoader.load(...) of the branch of the extension
RequestLoad(s) == [s EXCEPT !.load = Strategy(s.ext)]

\* import('three') resolves.  canvasRef.current is null once the component
\* has unmounted, and reading canvas.clientWidth then throws (line 733).
ImportThreeDone(k) ==
  /\ k \in SceneIds
  /\ scenes[k].pc = "import3"
  /\ IF ~mounted
     THEN /\ scenes' = [scenes EXCEPT ![k].pc = "failed"]
          /\ UNCHANGED animationRef
     ELSE IF scenes[k].ext = "none"
     THEN /\ scenes' = [scenes EXCEPT ![k] = StartLoop(createFallbackMonument(@))]
          /\ animationRef' = k
     ELSE /\ scenes' = [scenes EXCEPT ![k].pc = "loader"]
          /\ UNCHANGED animationRef
  /\ UNCHANGED <<mounted, monumentId, monument, loading, mode, cameraStream,
                 cameraError, cleanupStream, tracks, pendingCam, pendingFetch,
                 switches, orbit, pendingPlay, extra>>

\* import('three') rejects: the async function rejects, nothing was built
ImportThreeFail(k) ==
  /\ k \in SceneIds
  /\ scenes[k].pc = "import3"
  /\ scenes' = [scenes EXCEPT ![k].pc = "failed"]
  /\ UNCHANGED <<mounted, monumentId, monument, loading, mode, cameraStream,
                 cameraError, cleanupStream, animationRef, tracks, pendingCam,
                 pendingFetch, switches, orbit, pendingPlay, extra>>

\* the import of a loader module resolves (STLLoader, OBJLoader, MTLLoader,
\* GLTFLoader); after the last one the load is requested and the function
\* runs on to animate()
ImportLoaderDone(k) ==
  /\ k \in SceneIds
  /\ scenes[k].pc \in {"loader", "loader2"}
  /\ IF scenes[k].ext = "obj" /\ scenes[k].pc = "loader"
     THEN /\ scenes' = [scenes EXCEPT ![k].pc = "loader2"]
          /\ UNCHANGED animationRef
     ELSE /\ scenes' = [scenes EXCEPT ![k] = StartLoop(RequestLoad(@))]
          /\ animationRef' = k
  /\ UNCHANGED <<mounted, monumentId, monument, loading, mode, cameraStream,
                 cameraError, cleanupStream, tracks, pendingCam, pendingFetch,
                 switches, orbit, pendingPlay, extra>>

\* the import of a loader module rejects: catch (line 1008), then animate()
ImportLoaderFail(k) ==
  /\ k \in SceneIds
  /\ scenes[k].pc \in {"loader", "loader2"}
  /\ scenes' = [scenes EXCEPT ![k] = StartLoop(onError(@))]
  /\ animationRef' = k
  /\ UNCHANGED <<mounted, monumentId, monument, loading, mode, cameraStream,
                 cameraError, cleanupStream, tracks, pendingCam, pendingFetch,
                 switches, orbit, pendingPlay, extra>>

\* the material file loaded: geometry is requested with the materials
MtlLoaded(k) ==
  /\ k \in SceneIds
  /\ scenes[k].load = "mtl"
  /\ scenes' = [scenes EXCEPT ![k] = onMtlLoad(@)]
  /\ UNCHANGED <<mounted, monumentId, monument, loading, mode, cameraStream,
                 cameraError, cleanupStream, animationRef, tracks, pendingCam,
                 pendingFetch, switches, orbit, pendingPlay, extra>>

\* the material file failed
MtlFailed(k) ==
  /\ k \in SceneIds
  /\ scenes[k].load = "mtl"
  /\ scenes' = [scenes EXCEPT ![k] = onMtlError(@)]
  /\ UNCHANGED <<mounted, monumentId, monument, loading, mode, cameraStream,
                 cameraError, cleanupStream, animationRef, tracks, pendingCam,
                 pendingFetch, switches, orbit, pendingPlay, extra>>

\* mutant of modelRoot: one model-root shared by all calls, the newest scene's
modelRootShared(k) == Len(scenes)

\* the model-root the callbacks of call k close over: `const modelRoot = new
\* THREE.Group()` is a local of the call, so it is the root of scene k
modelRoot(k) == k

\* the geometry / scene bundle loaded
LoadSucceeded(k) ==
  /\ k \in SceneIds
  /\ scenes[k].load \in {"gltf", "stl", "obj-mtl", "obj-plain"}
  /\ scenes' = [scenes EXCEPT ![modelRoot(k)] = onLoad(@)]
  /\ UNCHANGED <<mounted, monumentId, monument, loading, mode, cameraStream,
                 cameraError, cleanupStream, animationRef, tracks, pendingCam,
                 pendingFetch, switches, orbit, pendingPlay, extra>>

\* the geometry / scene bundle failed to load
LoadFailed(k) ==
  /\ k \in SceneIds
  /\ scenes[k].load \in {"gltf", "stl", "obj-mtl", "obj-plain"}
  /\ scenes' = [scenes EXCEPT ![modelRoot(k)] = onError(@)]
  /\ UNCHANGED <<mounted, monumentId, monument, loading, mode, cameraStream,
                 cameraError, cleanupStream, animationRef, tracks, pendingCam,
                 pendingFetch, switches, orbit, pendingPlay, extra>>

\* animate as the animation-frame callback of scene k: it stores its new
\* request in animationRef.current and draws a frame.  What the frame does
\* to the closure's own locals is animateFrame below.
animate(k) ==
  /\ k \in SceneIds
  /\ scenes[k].running
  /\ animationRef' = k
  /\ UNCHANGED <<mounted, monumentId, monument, loading, mode, cameraStream,
                 cameraError, cleanupStream, scenes, tracks, pendingCam,
                 pendingFetch, switches, orbit, pendingPlay, extra>>

\* The viewer's life cycle: every handler, for monuments with a .glb asset,
\* without an asset, and with a backend record.  The loaders' callbacks and
\* failing imports write fields of their own scene only (modelRoot is a
\* local of initThreeJS); they are the steps of SpecLoad.  The settlements
\* of video.play() write cameraError only; they are steps of SpecCamera.
Next ==
  \/ \E i \in 1..Len(pendingFetch), o \in {"data", "none", "error"} : FetchSettle(i, o)
  \/ \E id \in MonumentIds : SwitchMonument(id)
  \/ Unmount
  \/ StartCameraClick
  \/ CameraGranted
  \/ \E n \in {"NotAllowedError", "NotReadableError"} : CameraRejected(n)
  \/ stopCamera
  \/ ResetView
  \/ \E k \in SceneIds : ImportThreeDone(k)
  \/ \E k \in SceneIds : ImportLoaderDone(k)
  \/ \E k \in SceneIds : animate(k)

Spec == Init /\ [][Next]_vars

\* the camera: acquisition, playback and release for the viewer opened
\* without a query parameter
InitCamera == InitFor({NoId}) /\ NoTitle /\ PointerAway

NextCamera ==
  \/ StartCameraClick
  \/ CameraGranted
  \/ \E n \in {"NotAllowedError", "NotReadableError"} : CameraRejected(n)
  \/ PlayResolved
  \/ PlayRejected
  \/ stopCamera
  \/ Unmount
  \/ \E k \in SceneIds : ImportThreeDone(k)
  \/ \E k \in SceneIds : ImportLoaderDone(k)
  \/ \E k \in SceneIds : animate(k)

SpecCamera == InitCamera /\ [][NextCamera]_vars

\* the same under the assumption that getUserMedia settles
AcquisitionSettles ==
  \/ CameraGranted
  \/ \E n \in {"NotAllowedError", "NotReadableError"} : CameraRejected(n)

SpecCameraLive == SpecCamera /\ WF_vars(AcquisitionSettles)

\* asset resolution: the viewer opened with every kind of identifier (none,
\* a UUID with a backend record, one that matches a key in lower case, one
\* that matches nothing), without the camera
ResolveIds == {NoId, UuidA, "HAMPI", "zzz"}

InitResolve == InitFor(ResolveIds) /\ NoTitle /\ PointerAway

NextResolve ==
  \/ \E i \in 1..Len(pendingFetch), o \in {"data", "none", "error"} : FetchSettle(i, o)
  \/ \E id \in ResolveIds : SwitchMonument(id)
  \/ ResetView
  \/ \E k \in SceneIds : ImportThreeDone(k)
  \/ \E k \in SceneIds : ImportLoaderDone(k)

SpecResolve == InitResolve /\ [][NextResolve]_vars

\* the lookup with every outcome, under the assumption that the backend
\* query settles
NextLookup ==
  \/ \E i \in 1..Len(pendingFetch), o \in {"data", "none", "error"} : FetchSettle(i, o)
  \/ \E id \in ResolveIds : SwitchMonument(id)
  \/ Unmount
  \/ \E k \in SceneIds : ImportThreeDone(k)
  \/ \E k \in SceneIds : ImportLoaderDone(k)

QuerySettles ==
  \E i \in 1..(MaxSwitches + 1), o \in {"data", "none", "error"} : FetchSettle(i, o)

SpecLookup == InitResolve /\ [][NextLookup]_vars /\ WF_vars(QuerySettles)

\* the loading pipeline: every loader strategy, for the scenes that the
\* first render and 'Reset View' initialise
NextLoad ==
  \/ Unmount
  \/ ResetView
  \/ \E k \in SceneIds : ImportThreeDone(k)
  \/ \E k \in SceneIds : ImportThreeFail(k)
  \/ \E k \in SceneIds : ImportLoaderDone(k)
  \/ \E k \in SceneIds : ImportLoaderFail(k)
  \/ \E k \in SceneIds : MtlLoaded(k)
  \/ \E k \in SceneIds : MtlFailed(k)
  \/ \E k \in SceneIds : LoadSucceeded(k)
  \/ \E k \in SceneIds : LoadFailed(k)
  \/ \E k \in SceneIds : animate(k)

SpecLoad == InitLoad /\ [][NextLoad]_vars

TypeOK ==
  /\ mounted \in BOOLEAN /\ loading \in BOOLEAN
  /\ monumentId \in MonumentIds \cup LoadIds
  /\ mode \in {"3d", "camera"}
  /\ cameraStream \in 0..Len(tracks)
  /\ animationRef \in 0..Len(scenes)
  /\ Len(scenes) <= MaxScenes
  /\ Len(tracks) + pendingCam <= MaxStreams

(***************************************************************************)
(* Gestures and the frame body of one initThreeJS closure.                 *)
(* Angles are integers in 1/1000 rad: the sensitivity 0.01 rad per pixel   *)
(* is 10, Math.PI / 4 = 0.7853... is 785.  Pixels and milliseconds are     *)
(* integers as in the browser.                                             *)
(***************************************************************************)
DragSensitivity == 10
SwipeYawStep == 500
SwipePitchStep == 300
AutoRotateStep == 3
PitchLimit == 785
SWIPE_THRESHOLD == 50
SWIPE_TIME_LIMIT == 300
FeedbackLife == 800   \* the delay of the removal timer, in ms

\* readings of Date.now(), in ms
Instants == {1000, 1200, 1400}

\* clientX / clientY values of the events
Xs == {0, 60}
Ys == {0, 60}
Points == [x : Xs, y : Ys]
NoTouch == [x |-> -1, y |-> -1]

Abs(n) == IF n < 0 THEN -n ELSE n
Min(a, b) == IF a < b THEN a ELSE b
Max(a, b) == IF a > b THEN a ELSE b

\* mutant of clampPitch: the clamp is left out
clampPitchOff(v) == v

\* Math.max(-Math.PI / 4, Math.min(Math.PI / 4, rotationX))
clampPitch(v) == Max(-PitchLimit, Min(PitchLimit, v))

\* mutant of IsSwipe: the duration of the session is not looked at
IsSwipeUntimed(deltaX, deltaY, timeDiff) ==
  Abs(deltaX) > SWIPE_THRESHOLD \/ Abs(deltaY) > SWIPE_THRESHOLD

\* lines 1078-1079: the session is short and long enough in one axis
IsSwipe(deltaX, deltaY, timeDiff) ==
  /\ timeDiff < SWIPE_TIME_LIMIT
  /\ (Abs(deltaX) > SWIPE_THRESHOLD \/ Abs(deltaY) > SWIPE_THRESHOLD)

\* mutant of SwipeDirection: the vertical axis wins unless it is smaller
SwipeDirectionVerticalFirst(deltaX, deltaY, timeDiff) ==
  IF IsSwipe(deltaX, deltaY, timeDiff)
  THEN IF Abs(deltaX) < Abs(deltaY)
       THEN (IF deltaX > 0 THEN "Right Swipe" ELSE "Left Swipe")
       ELSE (IF deltaY > 0 THEN "Down Swipe" ELSE "Up Swipe")
  ELSE ""

\* lines 1078-1088: "" when the session is no swipe, else the direction
SwipeDirection(deltaX, deltaY, timeDiff) ==
  IF IsSwipe(deltaX, deltaY, timeDiff)
  THEN IF Abs(deltaX) > Abs(deltaY)
       THEN (IF deltaX > 0 THEN "Right Swipe" ELSE "Left Swipe")
       ELSE (IF deltaY > 0 THEN "Down Swipe" ELSE "Up Swipe")
  ELSE ""

\* the listeners are bound once initThreeJS has run to its end
ListenersBound == Len(scenes) >= 1 /\ scenes[1].pc = "ready"

\* the initThreeJS calls that have run to the canvas.addEventListener calls
\* of lines 1038-1108; no listener is ever removed
CanvasListeners == {k \in SceneIds : scenes[k].pc = "ready"}

lifecycle == <<mounted, monumentId, monument, loading, mode, cameraStream,
               cameraError, cleanupStream, animationRef, scenes, tracks,
               pendingCam, pendingFetch, switches, pendingPlay>>

\* canvas 'mousedown' (the pointer is over the canvas)
MouseDown ==
  /\ ListenersBound
  /\ pointer \in Points
  /\ isDragging' = TRUE
  /\ UNCHANGED <<lifecycle, extra, swipeFeedback, previousMousePosition,
                 rotationY, rotationX, touchStartPos, touchStartTime, time,
                 touches, now, pointer, frame, followers>>

\* canvas 'mouseup'
MouseUp ==
  /\ ListenersBound
  /\ pointer \in Points
  /\ isDragging' = FALSE
  /\ UNCHANGED <<lifecycle, extra, swipeFeedback, previousMousePosition,
                 rotationY, rotationX, touchStartPos, touchStartTime, time,
                 touches, now, pointer, frame, followers>>

\* canvas 'mouseleave': the pointer leaves the canvas
MouseLeave ==
  /\ ListenersBound
  /\ pointer \in Points
  /\ isDragging' = FALSE
  /\ pointer' = Offscreen
  /\ UNCHANGED <<lifecycle, extra, swipeFeedback, previousMousePosition,
                 rotationY, rotationX, touchStartPos, touchStartTime, time,
                 touches, now, frame, followers>>

\* canvas 'mousemove': the pointer moves to p, or enters the canvas at p
MouseMove(p) ==
  /\ ListenersBound
  /\ p # pointer
  /\ LET deltaX == p.x - previousMousePosition.x
         deltaY == p.y - previousMousePosition.y
     IN IF isDragging
        THEN /\ Abs(rotationY + deltaX * DragSensitivity) <= MaxYaw
             /\ rotationY' = rotationY + deltaX * DragSensitivity
             /\ rotationX' = clampPitch(rotationX + deltaY * DragSensitivity)
        ELSE UNCHANGED <<rotationY, rotationX>>
  /\ previousMousePosition' = p
  /\ pointer' = p
  /\ UNCHANGED <<lifecycle, extra, swipeFeedback, isDragging, touchStartPos,
                 touchStartTime, time, touches, now, frame, followers>>

\* canvas 'touchstart' of the first contact, at p
TouchStart(p) ==
  /\ ListenersBound
  /\ touches = 0
  /\ touches' = 1
  /\ isDragging' = TRUE
  /\ previousMousePosition' = p
  /\ touchStartPos' = p
  /\ touchStartTime' = now
  /\ followers' = Cardinality(CanvasListeners) - 1
  /\ UNCHANGED <<lifecycle, extra, swipeFeedback, rotationY, rotationX, time,
                 now, pointer, frame>>

\* canvas 'touchstart' of a further contact while e.touches[0], an earlier
\* contact, is at p0: the same listener, it reads e.touches[0] only
TouchStartExtra(p0) ==
  /\ ListenersBound
  /\ touches >= 1 /\ touches < MaxTouches
  /\ touches' = touches + 1
  /\ isDragging' = TRUE
  /\ previousMousePosition' = p0
  /\ touchStartPos' = p0
  /\ touchStartTime' = now
  /\ followers' = Cardinality(CanvasListeners) - 1
  /\ UNCHANGED <<lifecycle, extra, swipeFeedback, rotationY, rotationX, time,
                 now, pointer, frame>>

\* canvas 'touchmove'; p is where e.touches[0] is now
TouchMove(p) ==
  /\ ListenersBound
  /\ touches >= 1
  /\ IF isDragging /\ touches = 1
     THEN LET deltaX == p.x - previousMousePosition.x
              deltaY == p.y - previousMousePosition.y
          IN /\ Abs(rotationY + deltaX * DragSensitivity) <= MaxYaw
             /\ rotationY' = rotationY + deltaX * DragSensitivity
             /\ rotationX' = clampPitch(rotationX + deltaY * DragSensitivity)
             /\ previousMousePosition' = p
     ELSE UNCHANGED <<rotationY, rotationX, previousMousePosition>>
  /\ UNCHANGED <<lifecycle, extra, swipeFeedback, isDragging, touchStartPos,
                 touchStartTime, time, touches, now, pointer, frame, followers>>

\* line 1083: rotationY += deltaX > 0 ? 0.5 : -0.5
swipeYaw(direction, y) ==
  CASE direction = "Right Swipe" -> y + SwipeYawStep
    [] direction = "Left Swipe" -> y - SwipeYawStep
    [] OTHER -> y

\* mutant of swipePitch: every swipe tilts, a horizontal one as 'down'
swipePitchAnyAxis(direction, x) ==
  CASE direction \in {"Down Swipe", "Right Swipe", "Left Swipe"} ->
         clampPitch(x + SwipePitchStep)
    [] direction = "Up Swipe" -> clampPitch(x - SwipePitchStep)
    [] OTHER -> x

\* lines 1086-1087: rotationX += deltaY > 0 ? 0.3 : -0.3, then the clamp
swipePitch(direction, x) ==
  CASE direction = "Down Swipe" -> clampPitch(x + SwipePitchStep)
    [] direction = "Up Swipe" -> clampPitch(x - SwipePitchStep)
    [] OTHER -> x

\* the elements of swipeFeedback that are in the document
Attached(dom) == {i \in 1..Len(dom) : dom[i].attached}

\* document.getElementById('swipe-feedback'): the first one in the document
existingFeedback(dom) ==
  IF Attached(dom) = {} THEN 0
  ELSE CHOOSE i \in Attached(dom) : \A j \in Attached(dom) : i <= j

\* lines 1091-1099 in one listener: the existing element is removed from
\* the document if there is one, a new one with the direction is appended
\* to the body and its removal is timed
showFeedback(dom, direction, t) ==
  Append(IF existingFeedback(dom) = 0 THEN dom
         ELSE [dom EXCEPT ![existingFeedback(dom)].attached = FALSE],
         [text |-> direction, shownAt |-> t, attached |-> TRUE])

\* the 'touchend' listeners of n closures run one after the other on one event
RECURSIVE showFeedbackEach(_, _, _, _)
showFeedbackEach(dom, direction, t, n) ==
  IF n = 0 \/ direction = "" THEN dom
  ELSE showFeedbackEach(showFeedback(dom, direction, t), direction, t, n - 1)

\* the text the user sees: that of the elements in the document
FeedbackShown(dom) == {dom[i].text : i \in Attached(dom)}

\* mutant of draggingAfterTouchEnd: cleared only with a changed touch
draggingAfterTouchEndChanged(dragging, changed) ==
  IF changed THEN FALSE ELSE dragging

\* line 1105: isDragging = false, outside every condition of the listener
draggingAfterTouchEnd(dragging, changed) == FALSE

\* canvas 'touchend'; p is e.changedTouches[0], NoTouch when the list is
\* empty.  A contact lasts longer than the resolution of the clock.
TouchEnd(p) ==
  /\ ListenersBound
  /\ touches >= 1
  /\ now > touchStartTime
  /\ touches' = touches - 1
  /\ LET direction == IF isDragging /\ p # NoTouch
                      THEN SwipeDirection(p.x - touchStartPos.x,
                                          p.y - touchStartPos.y,
                                          now - touchStartTime)
                      ELSE ""
     IN /\ rotationY' = swipeYaw(direction, rotationY)
        /\ Abs(rotationY') <= MaxYaw
        /\ rotationX' = swipePitch(direction, rotationX)
        /\ swipeFeedback' = showFeedbackEach(swipeFeedback, direction, now,
                                             1 + followers)
  /\ isDragging' = draggingAfterTouchEnd(isDragging, p # NoTouch)
  /\ UNCHANGED <<lifecycle, extra, previousMousePosition, touchStartPos,
                 touchStartTime, time, now, pointer, frame, followers>>

\* the oldest pending setTimeout of line 1099 fires (equal delays fire in
\* the order they were set): feedback.remove() of its element
FeedbackExpire ==
  /\ swipeFeedback # << >>
  /\ now >= swipeFeedback[1].shownAt + FeedbackLife
  /\ swipeFeedback' = Tail(swipeFeedback)
  /\ UNCHANGED <<lifecycle, extra, isDragging, previousMousePosition, rotationY,
                 rotationX, touchStartPos, touchStartTime, time, touches, now,
                 pointer, frame, followers>>

\* mutant of autoRotate: the step is added while dragging too
autoRotateAlways(y, dragging) == y + AutoRotateStep

\* lines 1126-1128: if (!isDragging) rotationY += 0.003
autoRotate(y, dragging) == IF ~dragging THEN y + AutoRotateStep ELSE y

\* mutant of renderFrame: the camera is placed from the yaw before the step
renderFrameStale(yawBefore, yaw, pitch) == <<yaw, yawBefore, pitch>>

\* lines 1130-1149: modelRoot.rotation.y, then camera.position and lookAt
\* from rotationY and rotationX, then renderer.render(scene, camera); the
\* result is the yaw of the model and the yaw and pitch of the camera drawn
renderFrame(yawBefore, yaw, pitch) == <<yaw, yaw, pitch>>

\* mutant of setScalarArgument: the descriptor's scale is left out
setScalarArgumentPlain(base, multiplier) == 10 * multiplier

\* line 1132: baseScale * modelScaleRef.current (1/10 times 1/100)
setScalarArgument(base, multiplier) == base * multiplier

\* animate as the frame callback of the observed closure (lines 1122-1149)
animateFrame ==
  /\ ListenersBound
  /\ scenes[1].running
  /\ time < MaxTicks
  /\ time' = time + 1
  /\ animationRef' = 1
  /\ rotationY' = autoRotate(rotationY, isDragging)
  /\ Abs(rotationY') <= MaxYaw
  /\ scaleApplied' = modelScaleRef
  /\ rootScale' = setScalarArgument(baseScale(scenes[1].config), modelScaleRef)
  /\ frame' = renderFrame(rotationY, rotationY', rotationX)
  /\ UNCHANGED <<mounted, monumentId, monument, loading, mode, cameraStream,
                 cameraError, cleanupStream, scenes, tracks, pendingCam,
                 pendingFetch, switches, pendingPlay, isDragging,
                 previousMousePosition, rotationX, touchStartPos,
                 touchStartTime, touches, now, swipeFeedback, pointer,
                 followers, modelScale, modelScaleRef, title, titleKey,
                 keyPasses>>

\* the clock advances to t; a timer that is due fires before time passes it
ClockTick(t) ==
  /\ t > now
  /\ \A i \in 1..Len(swipeFeedback) : swipeFeedback[i].shownAt + FeedbackLife >= t
  /\ now' = t
  /\ UNCHANGED <<lifecycle, extra, swipeFeedback, isDragging,
                 previousMousePosition, rotationY, rotationX, touchStartPos,
                 touchStartTime, time, touches, pointer, frame, followers>>

\* the viewer of a monument without asset, from its first initThreeJS on;
\* the pointer rests over the canvas or elsewhere
InitOrbit == InitFor({"zzz"}) /\ NoTitle /\ pointer \in Points \cup {Offscreen}

NextOrbit ==
  \/ ImportThreeDone(1)
  \/ MouseDown
  \/ MouseUp
  \/ MouseLeave
  \/ \E p \in Points : MouseMove(p)
  \/ \E p \in Points : TouchStart(p)
  \/ \E p \in Points : TouchMove(p)
  \/ \E p \in Points \cup {NoTouch} : TouchEnd(p)
  \/ \E t \in Instants : ClockTick(t)

SpecOrbit == InitOrbit /\ [][NextOrbit]_vars

(***************************************************************************)
(* The mouse path and the frames of one closure (SpecTick).                *)
(***************************************************************************)
NextTick ==
  \/ ImportThreeDone(1)
  \/ MouseDown
  \/ MouseUp
  \/ MouseLeave
  \/ \E p \in Points : MouseMove(p)
  \/ animateFrame

SpecTick == InitOrbit /\ [][NextTick]_vars

(***************************************************************************)
(* Touch sessions with several contacts (SpecTouch).                       *)
(***************************************************************************)
InitTouch == InitFor({"zzz"}) /\ NoTitle /\ PointerAway

NextTouch ==
  \/ ImportThreeDone(1)
  \/ \E p \in Points : TouchStart(p)
  \/ \E p \in Points : TouchStartExtra(p)
  \/ \E p \in Points : TouchMove(p)
  \/ \E p \in Points \cup {NoTouch} : TouchEnd(p)
  \/ \E t \in Instants : ClockTick(t)

SpecTouch == InitTouch /\ [][NextTouch]_vars

(***************************************************************************)
(* Touch sessions at the thresholds, after re-initialisations, and the     *)
(* feedback timers (SpecSwipe).                                            *)
(***************************************************************************)
\* horizontal displacements of 0, 50 and 51 px
EdgePoints == [x : {0, 50, 51}, y : {0}]

\* durations of 200 and 300 ms, and 800 ms after a feedback was shown
EdgeInstants == {1000, 1200, 1300, 2000}

NextSwipe ==
  \/ \E k \in SceneIds : ImportThreeDone(k)
  \/ ResetView
  \/ \E p \in EdgePoints : TouchStart(p)
  \/ \E p \in EdgePoints \cup {NoTouch} : TouchEnd(p)
  \/ FeedbackExpire
  \/ \E t \in EdgeInstants : ClockTick(t)

SpecSwipe == InitTouch /\ [][NextSwipe]_vars

(***************************************************************************)
(* The 'Model Size' slider (SpecScale).  Scales are integers in 1/100.     *)
(* The slider is an <input type="range"> with min, max and step; the value *)
(* the browser hands to onChange is the pointer's raw value brought into   *)
(* [min, max] and onto the step grid that starts at min.                   *)
(***************************************************************************)
SliderMin == 10
SliderMax == 150
SliderStep == 5

RawMargin == 20   \* how far outside [min, max] the raw slider inputs reach

RawScales == (SliderMin - RawMargin)..(SliderMax + RawMargin)

\* mutant of rangeValue: the raw value is handed on as it is
rangeValueRaw(raw) == raw

\* e.target.value of the range input for the raw value
rangeValue(raw) ==
  LET c == Max(SliderMin, Min(SliderMax, raw))
  IN SliderMin + SliderStep * (((c - SliderMin) * 2 + SliderStep) \div (2 * SliderStep))

\* onChange of the slider (shown in 3d mode): setModelScale(Number(value));
\* the [modelScale] effect of the re-render copies it to modelScaleRef
SliderChange(raw) ==
  /\ mounted /\ ~loading /\ mode = "3d"
  /\ modelScale' = rangeValue(raw)
  /\ modelScaleRef' = modelScale'
  /\ UNCHANGED <<lifecycle, orbit, scaleApplied, rootScale, title, titleKey,
                 keyPasses>>

NextScale ==
  \/ ImportThreeDone(1)
  \/ \E raw \in RawScales : SliderChange(raw)
  \/ animateFrame

SpecScale == InitOrbit /\ [][NextScale]_vars

(***************************************************************************)
(* The scale of the model-root with and without a descriptor, while the    *)
(* view is dragged (SpecBase).                                             *)
(***************************************************************************)
\* where the slider is moved to
ScaleStops == {SliderMin, DefaultScale, SliderMax}

InitBase == InitFor({"HAMPI", "zzz"}) /\ NoTitle /\ PointerAway

NextBase ==
  \/ ImportThreeDone(1)
  \/ ImportLoaderDone(1)
  \/ \E raw \in ScaleStops : SliderChange(raw)
  \/ MouseDown
  \/ MouseUp
  \/ \E p \in Points : MouseMove(p)
  \/ animateFrame

SpecBase == InitBase /\ [][NextBase]_vars

(***************************************************************************)
(* Reset View (SpecReset): the built-in monument, the Reset View button,   *)
(* the frames of every closure and the mouse on the canvas.                *)
(***************************************************************************)
InitReset == InitFor({"zzz"}) /\ NoTitle /\ PointerAway

NextReset ==
  \/ \E k \in 1..MaxScenes : ImportThreeDone(k)
  \/ ResetView
  \/ animateFrame
  \/ \E k \in 2..MaxScenes : animate(k)
  \/ MouseDown
  \/ MouseUp
  \/ \E p \in Points : MouseMove(p)

SpecReset == InitReset /\ [][NextReset]_vars

(***************************************************************************)
(* normalizeKey (SpecKey).  A string is a sequence of characters; the      *)
(* alphabet has an upper-case letter, a lower-case letter, a digit, a      *)
(* blank, the dash itself, and U+0130, whose lower case is two code units. *)
(***************************************************************************)
MaxLen == 3      \* longest title
MaxPasses == 2   \* applications of normalizeKey to one title

Alphabet == {"A", "b", "7", " ", "-", "U+0130"}

Titles == UNION {[1..n -> Alphabet] : n \in 0..MaxLen}

\* String.prototype.toLowerCase on one character
lowerChar(c) ==
  CASE c = "A" -> << "a" >>
    [] c = "U+0130" -> << "i", "U+0307" >>
    [] OTHER -> << c >>

RECURSIVE toLowerCase(_)
toLowerCase(str) ==
  IF str = << >> THEN << >> ELSE lowerChar(Head(str)) \o toLowerCase(Tail(str))

\* the class [a-z0-9]
IsAlnum(c) == c \in {"a", "b", "i", "7"}

RECURSIVE skipRun(_)
skipRun(str) ==
  IF str = << >> \/ IsAlnum(Head(str)) THEN str ELSE skipRun(Tail(str))

\* .replace(/[^a-z0-9]+/g, '-')
RECURSIVE replaceRuns(_)
replaceRuns(str) ==
  IF str = << >> THEN << >>
  ELSE IF IsAlnum(Head(str)) THEN << Head(str) >> \o replaceRuns(Tail(str))
  ELSE << "-" >> \o replaceRuns(skipRun(Tail(str)))

\* .replace(/(^-|-$)/g, '')
trimDashes(str) ==
  LET a == IF str # << >> /\ Head(str) = "-" THEN Tail(str) ELSE str
  IN IF a # << >> /\ a[Len(a)] = "-" THEN SubSeq(a, 1, Len(a) - 1) ELSE a

\* mutant of normalizeKey: the dashes are trimmed before the runs are replaced
normalizeKeyTrimFirst(value) == replaceRuns(trimDashes(toLowerCase(value)))

normalizeKey(value) == trimDashes(replaceRuns(toLowerCase(value)))

\* normalizeKey applied to the title, then to its own result
NormalizeTitle ==
  /\ keyPasses < MaxPasses
  /\ titleKey' = normalizeKey(IF keyPasses = 0 THEN title ELSE titleKey)
  /\ keyPasses' = keyPasses + 1
  /\ UNCHANGED <<lifecycle, orbit, modelScale, modelScaleRef, scaleApplied,
                 rootScale, title>>

InitKey ==
  /\ InitFor({NoId})
  /\ PointerAway
  /\ title \in Titles
  /\ titleKey = << >>
  /\ keyPasses = 0

NextKey == NormalizeTitle

SpecKey == InitKey /\ [][NextKey]_vars

\* C4: the pitch is within [-pi/4, pi/4] in every reachable state, whatever
\* mouse moves, touch moves and swipes have been handled.
C4_PitchClamped == -PitchLimit <= rotationX /\ rotationX <= PitchLimit

\* a drag has driven the pitch into the limit and a swipe was applied there
C4_Witness ==
  /\ rotationX = PitchLimit
  /\ ~isDragging /\ touches = 0
  /\ touchStartTime > 0
  /\ previousMousePosition.y = 60

(***************************************************************************)
(* Claims about the life cycle (Spec).                                     *)
(***************************************************************************)
LiveStreams == {s \in 1..Len(tracks) : tracks[s] = "live"}

RunningLoops == {k \in SceneIds : scenes[k].running}

\* C1: once the viewer has been unmounted in camera mode with a stream held
\* (the state cells keep their last values), every track of that stream is
\* stopped and no render loop has a frame request pending.
C1_TeardownReleasesCameraAndLoop ==
  (~mounted /\ mode = "camera" /\ cameraStream # 0)
    => (tracks[cameraStream] = "stopped" /\ RunningLoops = {})

\* C2: at most one render loop (a scene whose animate callback is pending
\* with the browser) is active in every reachable state.
C2_AtMostOneRenderLoop == Cardinality(RunningLoops) <= 1

\* C3: at most one granted camera stream has live tracks in every reachable
\* state.
C3_AtMostOneLiveStream == Cardinality(LiveStreams) <= 1

\* C8: a getUserMedia rejection with NotAllowedError, arriving at the mounted
\* viewer, ends with mode '3d', no stream handle and the permission-denied
\* message as the one error shown.
C8_DenialLeaves3DWithoutHandle ==
  [][(mounted /\ CameraRejected("NotAllowedError"))
       => (mode' = "3d" /\ cameraStream' = 0 /\ cameraError' = DeniedMsg)]_vars

\* C9: every step from camera mode to 3d mode that is not a monument switch
\* ('Back to 3D View') stops the tracks of the stream the handle held and
\* clears the handle; and camera mode always holds a handle to stop.
C9_BackTo3DReleasesStream ==
  [][(mode = "camera" /\ mode' = "3d" /\ monumentId' = monumentId)
       => (/\ cameraStream # 0
           /\ tracks'[cameraStream] = "stopped"
           /\ cameraStream' = 0)]_vars

C9_Witness ==
  /\ mounted /\ switches = 0
  /\ mode = "3d" /\ cameraStream = 0
  /\ Len(tracks) >= 1 /\ tracks[1] = "stopped"

\* C10 as stated: a change of mode leaves the scenes (scene graph, model,
\* running loop) and the stored frame request as they were, and starts no
\* new initialisation.
C10_ModeSwitchKeepsScene ==
  [][mode' # mode => (scenes' = scenes /\ animationRef' = animationRef)]_vars

\* C10 amended: a change of mode cancels the frame request stored in
\* animationRef and starts one new scene initialisation for the new mode,
\* with an empty model-root and a model load of its own.
C10_ModeSwitchReinitialises ==
  [][mode' # mode
       => (/\ Len(scenes') = Len(scenes) + 1
           /\ scenes'[Len(scenes')] =
                NewScene(mode' = "camera", getModelConfig(monument', monumentId'))
           /\ animationRef # 0 => ~scenes'[animationRef].running)]_vars

C10_Witness ==
  /\ mounted /\ mode = "camera"
  /\ Len(scenes) >= 2
  /\ scenes[Len(scenes)].cam
  /\ scenes[1].pc = "ready" /\ ~scenes[1].running

(***************************************************************************)
(* Claims about the loading pipeline (SpecLoad).                           *)
(***************************************************************************)
Extensions == {"glb", "gltf", "obj", "stl"}

PendingLoads == {"gltf", "stl", "mtl", "obj-mtl", "obj-plain"}

\* C5: a scene whose load has settled holds exactly one of the loaded asset
\* and the fallback structure in its model-root: never both, never neither.
C5_SettledRootHoldsExactlyOne ==
  \A k \in SceneIds :
    scenes[k].load = "done"
      => \/ (scenes[k].asset = 1 /\ scenes[k].fallback = 0)
         \/ (scenes[k].asset = 0 /\ scenes[k].fallback = 1)

C5_Witness ==
  \E k \in SceneIds :
    /\ scenes[k].ext = "stl"
    /\ scenes[k].load = "done"
    /\ scenes[k].asset = 1 /\ scenes[k].fallback = 0

\* C6: for each of the four extensions, a scene whose load failed (error
\* callback of the geometry, or a loader module that failed to import) has
\* the fallback structure in its model-root.
C6_FailedLoadBuildsFallback ==
  \A e \in Extensions : \A k \in SceneIds :
    (scenes[k].ext = e /\ scenes[k].err)
      => (scenes[k].fallback >= 1 /\ scenes[k].asset + scenes[k].fallback > 0)

C6_Witness ==
  \E k \in SceneIds :
    /\ scenes[k].ext = "obj" /\ scenes[k].err
    /\ scenes[k].fallback = 1 /\ scenes[k].asset = 0

\* C7: a scene's model-root is populated by at most one settlement, a scene
\* that initThreeJS has finished has either settled once or still has a
\* loader callback outstanding, and the root holds what that settlement put
\* there.
C7_SettlesExactlyOnce ==
  \A k \in SceneIds :
    /\ scenes[k].settles <= 1
    /\ scenes[k].pc = "ready"
         => (scenes[k].settles = 1 \/ scenes[k].load \in PendingLoads)
    /\ scenes[k].load = "done" <=> scenes[k].settles = 1
    /\ scenes[k].asset + scenes[k].fallback = scenes[k].settles

C7_Witness ==
  \E k \in SceneIds :
    /\ scenes[k].ext = "obj"
    /\ scenes[k].settles = 1 /\ scenes[k].load = "done"
    /\ scenes[k].asset = 1

(***************************************************************************)
(* Cancellation, camera handle and listeners (Spec).                       *)
(***************************************************************************)
\* C11: on every step that changes the monument or the mode, no render loop
\* that was running before the step is running after it, and at a monument
\* switch the tracks of the stream the handle held are stopped.
C11_SwitchStopsLoopAndStream ==
  [][(monumentId' # monumentId \/ mode' # mode)
       => (/\ \A k \in RunningLoops : ~scenes'[k].running
           /\ (monumentId' # monumentId /\ cameraStream # 0)
                => tracks'[cameraStream] = "stopped")]_vars

\* C17: while the viewer is mounted, camera mode holds the handle of a stream
\* with live tracks, and 3d mode holds no handle of a stream with live tracks.
C17_ModeMatchesCameraHandle ==
  mounted =>
    /\ mode = "camera" => (cameraStream # 0 /\ tracks[cameraStream] = "live")
    /\ mode = "3d" => (cameraStream = 0 \/ tracks[cameraStream] = "stopped")

\* C18: a getUserMedia rejection with any name other than NotAllowedError,
\* arriving at the mounted viewer, ends with mode '3d', no stream handle and
\* the hardware-failure message, which differs from the permission-denied one.
C18_HardwareFailureLeaves3DWithoutHandle ==
  [][(mounted /\ CameraRejected("NotReadableError"))
       => (/\ mode' = "3d" /\ cameraStream' = 0
           /\ cameraError' = HardwareMsg
           /\ HardwareMsg # DeniedMsg)]_vars

\* the scenes whose initThreeJS has run to window.addEventListener('resize',
\* handleResize); the file has no removeEventListener
ResizeListeners == {k \in SceneIds : scenes[k].pc = "ready"}

\* C20: at most one scene initialisation has its listeners bound, and none
\* once the viewer has unmounted.
C20_ListenersDoNotAccumulate ==
  /\ Cardinality(ResizeListeners) <= 1
  /\ ~mounted => ResizeListeners = {}

(***************************************************************************)
(* Superseded loads (SpecLoad).                                            *)
(***************************************************************************)
\* what a scene's model-root holds
Root(s) == <<s.asset, s.fallback>>

\* the steps of call k that populate a model-root
Settles(k) ==
  \/ LoadSucceeded(k) \/ LoadFailed(k)
  \/ ImportLoaderFail(k) \/ ImportThreeDone(k)

C13_HorizontalSwipeClassified ==
  [][\A p \in Points :
       LET deltaX == p.x - touchStartPos.x
           deltaY == p.y - touchStartPos.y
       IN (/\ TouchEnd(p) /\ isDragging
           /\ now - touchStartTime < SWIPE_TIME_LIMIT
           /\ Abs(deltaX) > SWIPE_THRESHOLD
           /\ Abs(deltaX) > Abs(deltaY))
            => (/\ FeedbackShown(swipeFeedback') =
                     {IF deltaX > 0 THEN "Right Swipe" ELSE "Left Swipe"}
                /\ rotationY' = IF deltaX > 0 THEN rotationY + SwipeYawStep
                                ELSE rotationY - SwipeYawStep
                /\ rotationX' = rotationX)]_vars

\* a session of 200 ms from x = 60 to x = 0 has been closed as a left swipe
C13_Witness ==
  /\ FeedbackShown(swipeFeedback) = {"Left Swipe"}
  /\ touches = 0 /\ ~isDragging
  /\ touchStartPos.x = 60
  /\ now - touchStartTime = 200
  /\ rotationY = -SwipeYawStep

\* C14: a touchend that closes a session longer than SWIPE_TIME_LIMIT changes
\* neither yaw nor pitch and shows no swipe feedback, whatever the
\* displacement; what touchmove applied before stays.
C14_SlowSessionIsNoSwipe ==
  [][\A p \in Points \cup {NoTouch} :
       (TouchEnd(p) /\ now - touchStartTime > SWIPE_TIME_LIMIT)
         => (/\ rotationY' = rotationY
             /\ rotationX' = rotationX
             /\ swipeFeedback' = swipeFeedback)]_vars

\* a session of 400 ms with 60 px of horizontal drag has been closed: the
\* drag's yaw is there, no feedback is shown
C14_Witness ==
  /\ touches = 0 /\ ~isDragging
  /\ now - touchStartTime = 400
  /\ touchStartPos.x = 0 /\ previousMousePosition.x = 60
  /\ rotationY = 60 * DragSensitivity
  /\ swipeFeedback = << >>

(***************************************************************************)
(* Frames and the mouse path (SpecTick).                                   *)
(***************************************************************************)
\* C21: every frame draws the model at the yaw and the camera at the yaw and
\* pitch that the orbit state has once the frame's own auto-rotate step is
\* applied; the frame body runs to completion, so no frame is drawn from a
\* yaw of before the step or from half of a gesture's update.
C21_FrameDrawsCurrentOrbit ==
  [][animateFrame => frame' = <<rotationY', rotationY', rotationX'>>]_vars

\* a frame after a drag of 60 px downwards: the step and the drag are drawn
C21_Witness ==
  /\ frame = <<AutoRotateStep, AutoRotateStep, 60 * DragSensitivity>>
  /\ rotationY = AutoRotateStep
  /\ ~isDragging

\* C27: a frame adds the auto-rotate step to the yaw exactly when the
\* dragging flag is false, leaves the yaw alone while it is true, and never
\* changes the pitch.
C27_AutoRotateOnlyWhenIdle ==
  [][animateFrame =>
       (/\ rotationY' = IF isDragging THEN rotationY
                        ELSE rotationY + AutoRotateStep
        /\ rotationX' = rotationX)]_vars

\* a frame was drawn during a drag and the yaw is where the drag left it
C27_Witness ==
  /\ time >= 1
  /\ isDragging
  /\ pointer = [x |-> 60, y |-> 0]
  /\ frame = <<60 * DragSensitivity, 60 * DragSensitivity, 0>>
  /\ rotationY = 60 * DragSensitivity

\* C28: a press sets the dragging flag, a release or a leave clears it; a
\* move while dragging turns yaw and pitch by the sensitivity times the
\* distance from where the pointer was (at the press, for the first move
\* after it); a move while not dragging turns nothing.
C28_DragMeasuredFromPress ==
  [][/\ MouseDown => isDragging'
     /\ (MouseUp \/ MouseLeave) => ~isDragging'
     /\ \A p \in Points :
          (MouseMove(p) /\ pointer \in Points) =>
            IF isDragging
            THEN /\ rotationY' = rotationY + DragSensitivity * (p.x - pointer.x)
                 /\ rotationX' = clampPitch(rotationX
                                   + DragSensitivity * (p.y - pointer.y))
            ELSE rotationY' = rotationY /\ rotationX' = rotationX]_vars

(***************************************************************************)
(* Touch sessions (SpecTouch, SpecSwipe, SpecOrbit).                       *)
(***************************************************************************)
\* C22: a touchmove or a touchend that arrives while more than one contact
\* is on the canvas changes neither yaw nor pitch.
C22_MultiTouchIgnored ==
  [][\A p \in Points \cup {NoTouch} :
       ((TouchMove(p) \/ TouchEnd(p)) /\ touches > 1)
         => (rotationY' = rotationY /\ rotationX' = rotationX)]_vars

\* the feedback elements a step has appended to the document
Produced == Len(swipeFeedback') - Len(swipeFeedback)

\* C23: a touchend that closes a session is classified as a swipe (it shows
\* a feedback element) exactly when the displacement is at least
\* SWIPE_THRESHOLD and the duration at most SWIPE_TIME_LIMIT.
C23_SwipeAtThresholds ==
  [][\A p \in EdgePoints :
       LET deltaX == p.x - touchStartPos.x
           deltaY == p.y - touchStartPos.y
       IN (TouchEnd(p) /\ isDragging)
            => (Produced >= 1
                  <=> (/\ deltaX * deltaX + deltaY * deltaY
                            >= SWIPE_THRESHOLD * SWIPE_THRESHOLD
                       /\ now - touchStartTime <= SWIPE_TIME_LIMIT))]_vars

\* the direction a touchend step has shown, "" when it has shown none
Shown == IF Produced >= 1 THEN swipeFeedback'[Len(swipeFeedback')].text ELSE ""

\* C24: a touchend turns the yaw by the swipe step and leaves the pitch when
\* it shows a horizontal swipe, turns the pitch by the swipe step within the
\* limit and leaves the yaw when it shows a vertical one, and changes
\* neither when it shows no swipe.
C24_SwipeTurnsOneAngle ==
  [][\A p \in Points \cup {NoTouch} :
       TouchEnd(p) =>
         CASE Shown = "Right Swipe" ->
                rotationY' = rotationY + SwipeYawStep /\ rotationX' = rotationX
           [] Shown = "Left Swipe" ->
                rotationY' = rotationY - SwipeYawStep /\ rotationX' = rotationX
           [] Shown = "Down Swipe" ->
                /\ rotationX' = Min(PitchLimit, rotationX + SwipePitchStep)
                /\ rotationY' = rotationY
           [] Shown = "Up Swipe" ->
                /\ rotationX' = Max(-PitchLimit, rotationX - SwipePitchStep)
                /\ rotationY' = rotationY
           [] OTHER -> rotationY' = rotationY /\ rotationX' = rotationX]_vars

\* an upward swipe has taken the pitch from a downward drag's 0.6 to 0.3
C24_Witness ==
  /\ FeedbackShown(swipeFeedback) = {"Up Swipe"}
  /\ rotationX = 60 * DragSensitivity - SwipePitchStep
  /\ rotationY = 0
  /\ touches = 0 /\ ~isDragging

\* C25: at most one feedback element is in the document, none is there for
\* longer than FeedbackLife, and a touchend appends at most one.
C25_OneTransientFeedback ==
  /\ [](/\ Cardinality(Attached(swipeFeedback)) <= 1
        /\ \A i \in Attached(swipeFeedback) :
             now - swipeFeedback[i].shownAt <= FeedbackLife)
  /\ [][\A p \in EdgePoints \cup {NoTouch} :
          TouchEnd(p) => Produced <= 1]_vars

\* C26: the dragging flag is false after every touchend.
C26_TouchEndClearsDragging ==
  [][\A p \in EdgePoints \cup {NoTouch} : TouchEnd(p) => ~isDragging']_vars

\* a session of 200 ms was closed with nothing shown and nothing turned
C26_Witness ==
  /\ touches = 0 /\ ~isDragging
  /\ touchStartTime = 1000 /\ now = 1200
  /\ swipeFeedback = << >>
  /\ rotationY = 0

(***************************************************************************)
(* Ring and orbs (SpecLoad).                                               *)
(***************************************************************************)
\* lines 1133-1142: what the frame body of a scene animates
AnimatesRing(s) == s.ring # 0
AnimatesOrbs(s) == s.orbs # 0

\* C31: in every scene whose load has settled, the ring is there and there
\* are exactly four orbs if and only if the model-root holds the fallback
\* structure; with a loaded asset there is no ring and no orb, and the frame
\* body animates ring and orbs in the fallback case only.
C31_RingAndOrbsOnlyInFallback ==
  \A k \in SceneIds :
    scenes[k].load = "done" =>
      /\ (scenes[k].ring = 1 /\ scenes[k].orbs = 4) <=> Root(scenes[k]) = <<0, 1>>
      /\ scenes[k].asset = 1 => (scenes[k].ring = 0 /\ scenes[k].orbs = 0)
      /\ AnimatesRing(scenes[k]) <=> scenes[k].fallback = 1
      /\ AnimatesOrbs(scenes[k]) <=> scenes[k].fallback = 1

\* one scene has settled with its asset, another with the fallback after a
\* loader error, and both draw frames
C31_Witness ==
  \E j, k \in SceneIds :
    /\ scenes[j].load = "done" /\ scenes[j].asset = 1 /\ scenes[j].orbs = 0
    /\ scenes[k].load = "done" /\ scenes[k].err /\ scenes[k].orbs = 4
    /\ scenes[k].ring = 1 /\ scenes[k].pc = "ready" /\ scenes[j].pc = "ready"

(***************************************************************************)
(* The scale of the model-root (SpecBase).                                 *)
(***************************************************************************)
\* C33: every frame sets the scale of the model-root to the base scale of
\* the scene's descriptor (2.2 for hampi, 1 without descriptor) times the
\* multiplier the slider stands at, whatever yaw, pitch and dragging flag
\* are; moving the slider starts no scene and leaves the frame request.
C33_ScaleIsBaseTimesMultiplier ==
  [][/\ animateFrame =>
          rootScale' = (IF scenes[1].config = "none" THEN 10 ELSE 22) * modelScale
     /\ \A raw \in ScaleStops :
          SliderChange(raw) =>
            (scenes' = scenes /\ animationRef' = animationRef)]_vars

\* the hampi scene has drawn a frame at 2.2 * 1.5 during a drag, after the
\* slider was moved, and is still the only scene
C33_Witness ==
  /\ rootScale = 22 * SliderMax
  /\ modelScale = SliderMax
  /\ scenes[1].config = "hampi" /\ Len(scenes) = 1
  /\ isDragging /\ rotationY # 0 /\ rotationX # 0

(***************************************************************************)
(* The monument lookup (SpecLookup).                                       *)
(***************************************************************************)
\* C34: while the viewer is mounted, a loading flag that is set is cleared
\* in the end, whatever the identifier and the outcome of the query; a
\* mounted viewer that is not loading has initialised a scene; a query that
\* finds nothing or fails leaves the error message alone.
C34_LookupSettlesLoading ==
  /\ (mounted /\ loading) ~> (~loading \/ ~mounted)
  /\ []((mounted /\ ~loading) => scenes # << >>)
  /\ [][\A i \in 1..(MaxSwitches + 1), o \in {"none", "error"} :
          FetchSettle(i, o) => cameraError' = cameraError]_vars

\* the query for a UUID has failed or found nothing: the viewer shows the
\* scene of the default descriptor, without record and without message
C34_Witness ==
  /\ mounted /\ ~loading
  /\ monumentId = UuidA /\ monument = NoMonument /\ pendingFetch = << >>
  /\ switches = 0
  /\ Len(scenes) = 1 /\ scenes[1].pc = "ready"
  /\ cameraError = ""

\* the record getCurrentMonument and getModelConfig read (lines 705, 719)
RecordInUse == monument

\* C35: once the identifier has been switched and no query is in flight,
\* the record used for the title and for the asset resolution, if there is
\* one, is the record of the current identifier.
C35_RecordMatchesIdentifier ==
  (mounted /\ switches > 0 /\ pendingFetch = << >> /\ RecordInUse # NoMonument)
    => RecordInUse = monumentId

(***************************************************************************)
(* Initialisations and acquisitions that complete late (Spec,              *)
(* SpecCameraLive).                                                        *)
(***************************************************************************)
\* lines 738 and 751-753: scene.background = null and setClearColor(0, 0)
TransparentClear(s) == s.cam

\* C32: every scene that draws frames was set up with the transparent clear
\* when the mode is 'camera' and with the opaque background when it is '3d'.
C32_ClearMatchesMode ==
  \A k \in RunningLoops : TransparentClear(scenes[k]) <=> mode = "camera"

\* C38: a click on Reset View leaves the mode, the stream handle, the error
\* message and the scale multiplier as they were, and a closure whose loop
\* still draws after the click draws yaw 0 and pitch 0 and is not dragging.
C38_ResetViewResetsOrbit ==
  [][ResetView =>
       /\ mode' = mode
       /\ cameraStream' = cameraStream
       /\ cameraError' = cameraError
       /\ modelScale' = modelScale
       /\ scenes'[1].running =>
            (rotationY' = 0 /\ rotationX' = 0 /\ ~isDragging')]_vars

\* C36: when the viewer has unmounted without a live stream and with an
\* acquisition pending, the acquisition settles and no stream has a live
\* track in the end.
C36_LateGrantIsStopped ==
  (~mounted /\ LiveStreams = {} /\ pendingCam > 0)
    ~> (pendingCam = 0 /\ LiveStreams = {})

\* C37: once the viewer has unmounted, no render loop is running, whichever
\* initialisation was still awaiting an import when the cleanups ran.
C37_NoLoopAfterUnmount == ~mounted => RunningLoops = {}

(***************************************************************************)
(* Scale bounds (SpecScale).                                               *)
(***************************************************************************)
\* C15: the scale the slider stores, the scale the ref hands to the frame
\* body and the multiplier the frame body has applied are within
\* [SliderMin, SliderMax], whatever raw values the slider was moved to.
C15_AppliedScaleWithinBounds ==
  /\ SliderMin <= modelScale /\ modelScale <= SliderMax
  /\ modelScaleRef = modelScale
  /\ scaleApplied # 0 => (SliderMin <= scaleApplied /\ scaleApplied <= SliderMax)

\* a frame has applied the lower bound and the slider now stands at the upper
C15_Witness ==
  /\ scaleApplied = SliderMin
  /\ modelScaleRef = SliderMax

(***************************************************************************)
(* Key normalisation (SpecKey).                                            *)
(***************************************************************************)
\* C16: for every title, normalizeKey applied to its own result gives that
\* result again.
C16_NormalizeKeyIdempotent ==
  keyPasses >= 1 => titleKey = normalizeKey(title)

\* a title that starts with a blank and has U+0130 in it was normalised twice
C16_Witness ==
  /\ keyPasses = MaxPasses
  /\ Len(title) = MaxLen
  /\ title[1] = " " /\ title[2] = "U+0130"
  /\ titleKey # title

(***************************************************************************)
(* Playback failure (SpecCamera).                                          *)
(***************************************************************************)
\* C19: the rejection of video.play() shows the playback message, which is
\* neither the permission-denied nor the hardware-failure message, and
\* changes neither the mode nor the stream handle nor the tracks.
C19_PlaybackFailureKeepsCameraMode ==
  [][PlayRejected
       => (/\ mounted => cameraError' = PlaybackMsg
           /\ PlaybackMsg \notin {DeniedMsg, HardwareMsg}
           /\ mode' = mode /\ cameraStream' = cameraStream
           /\ tracks' = tracks)]_vars

\* camera mode with the handle of a live stream and the playback message
C19_Witness ==
  /\ mounted /\ mode = "camera"
  /\ cameraStream # 0 /\ tracks[cameraStream] = "live"
  /\ cameraError = PlaybackMsg
  /\ pendingPlay = 0

(***************************************************************************)
(* Asset resolution (SpecResolve).                                         *)
(***************************************************************************)
\* a scene without descriptor never awaits a loader module or a loader
\* callback, and its model-root never holds a loaded asset
NoLoaderInvoked(s) ==
  /\ s.pc \notin {"loader", "loader2"}
  /\ s.load \in {"none", "done"}
  /\ s.asset = 0

\* C29 as stated: every scene initialisation uses the descriptor of the
\* title's key if the table has it, else the descriptor of the lower-cased
\* identifier if there is an identifier and the table has it, else none; and
\* a scene without descriptor gets the fallback without any loader.
C29_ResolutionWithoutDefault ==
  [][/\ Len(scenes') = Len(scenes) + 1
          => scenes'[Len(scenes')].config =
               (IF monument' # NoMonument /\ TitleKey(monument') \in TableKeys
                THEN TitleKey(monument')
                ELSE IF monumentId' # NoId /\ lowerCaseId(monumentId') \in TableKeys
                THEN lowerCaseId(monumentId')
                ELSE "none")
     /\ \A k \in SceneIds :
          scenes[k].config = "none" => NoLoaderInvoked(scenes'[k])]_vars

\* C29 amended: as above, but when there is no identifier the key 'hampi' is
\* looked up in its place.
C29_ResolutionOrder ==
  [][/\ Len(scenes') = Len(scenes) + 1
          => scenes'[Len(scenes')].config =
               (IF monument' # NoMonument /\ TitleKey(monument') \in TableKeys
                THEN TitleKey(monument')
                ELSE IF monumentId' # NoId /\ lowerCaseId(monumentId') \in TableKeys
                THEN lowerCaseId(monumentId')
                ELSE IF monumentId' = NoId THEN "hampi"
                ELSE "none")
     /\ \A k \in SceneIds :
          scenes[k].config = "none" => NoLoaderInvoked(scenes'[k])]_vars

\* after the switch to an identifier that has a descriptor of its own, 'Reset
\* View' has initialised a scene with the descriptor of the title
C29_Witness ==
  /\ monumentId = "HAMPI" /\ monument = UuidA /\ switches = 1
  /\ Len(scenes) = 2
  /\ scenes[2].config = "taj-mahal" /\ scenes[2].pc = "ready"

====
